---- MODULE Spec2Model ----
(***************************************************************************)
(* The slice algebra of pydap.lib: fix_slice, combine_slices and hyperslab *)
(* (src/src/pydap/lib.py), modelled as operators over Python values, and   *)
(* the calls of these functions as actions.                                *)
(*                                                                         *)
(* Python values:                                                          *)
(*   None / an integer attribute  -> None == <<>> / Some(v) == <<v>>       *)
(*   an int                       -> PyInt(i)                              *)
(*   slice(start, stop, step)     -> Slice(a, b, c), a, b, c optional ints *)
(*   Ellipsis                     -> Ellipsis                              *)
(*   a tuple                      -> Tuple(items), items a sequence        *)
(***************************************************************************)
EXTENDS Integers, Sequences, FiniteSets, TLC

VARIABLES pc, shape, slice1, slice2, slice3, out

vars == <<pc, shape, slice1, slice2, slice3, out>>

(* ------------------------------ bounds -------------------------------- *)

\* largest number of axes of a shape handed to fix_slice
MaxDim == 3
\* largest axis length of a shape handed to fix_slice
MaxLen == 1
\* magnitude of the integers and bounds drawn as inputs
MaxIdx == 2
\* largest length of the tuples handed to combine_slices
MaxCombLen == 1
\* largest length of the tuples handed to hyperslab
MaxHyperLen == 3
\* largest number of axes and largest axis length of the array x that is
\* indexed twice
MaxArrDim == 2
MaxArrLen == 3

(* --------------------------- Python values ---------------------------- *)

None == <<>>

Some(v) == <<v>>

PyInt(i) == [kind |-> "int", i |-> i]

Slice(a, b, c) == [kind |-> "slice", start |-> a, stop |-> b, step |-> c]

Ellipsis == [kind |-> "Ellipsis"]

Tuple(items) == [kind |-> "tuple", items |-> items]

\* slice(None)
SliceNone == Slice(None, None, None)

\* Python's `x or d` for x an optional integer: None and 0 are both falsy.
Or(x, d) == IF x = None \/ x[1] = 0 THEN d ELSE x[1]

\* (x,) * n : n copies of x, empty when n <= 0.
Repeat(x, n) == [k \in 1..n |-> x]

\* What a call hands back: a returned value, or a raised exception.
Return(v) == [raised |-> "", value |-> v]

Raise(e) == [raised |-> e, value |-> Tuple(<<>>)]

NoCall == [raised |-> "", value |-> None]

(* ------------------------------ fix_slice ----------------------------- *)

\* lines 62-63: convert `slice_` to a tuple
AsTuple(slice_) == IF slice_.kind = "tuple" THEN slice_.items ELSE <<slice_>>

\* lines 66-73: the loop that expands Ellipsis; returns out after the loop,
\* and the value `expand` has then.
RECURSIVE ExpandLoopOffByOne(_, _, _)
ExpandLoopOffByOne(items, expand, acc) ==
    IF items = <<>> THEN [out |-> acc, expand |-> expand]
    ELSE IF Head(items) = Ellipsis
         THEN ExpandLoopOffByOne(Tail(items), 0, acc \o Repeat(SliceNone, expand))
         ELSE ExpandLoopOffByOne(Tail(items), expand, Append(acc, Head(items)))

RECURSIVE ExpandLoop(_, _, _)
ExpandLoop(items, expand, acc) ==
    IF items = <<>> THEN [out |-> acc, expand |-> expand]
    ELSE IF Head(items) = Ellipsis
         THEN ExpandLoop(Tail(items), 0, acc \o Repeat(SliceNone, expand + 1))
         ELSE ExpandLoop(Tail(items), expand, Append(acc, Head(items)))

ExpandEllipsisPadLeft(items, shp) ==
    LET r == ExpandLoop(items, Len(shp) - Len(items), <<>>)
    IN  Repeat(SliceNone, r.expand) \o r.out

\* lines 65-74
ExpandEllipsis(items, shp) ==
    LET r == ExpandLoop(items, Len(shp) - Len(items), <<>>)
    IN  r.out \o Repeat(SliceNone, r.expand)

\* lines 78-93: one iteration of the second loop
FixAxis(s, n) ==
    IF s.kind = "int"
    THEN PyInt(IF s.i < 0 THEN s.i + n ELSE s.i)
    ELSE LET k == Or(s.step, 1)
             i == IF s.start # None /\ s.start[1] < 0
                  THEN Some(s.start[1] + n) ELSE s.start
             j == IF s.stop # None /\ s.stop[1] < 0
                  THEN Some(s.stop[1] + n) ELSE s.stop
         IN  Slice(i, j, Some(k))

Min(a, b) == IF a <= b THEN a ELSE b

\* lines 76-95: zip(slice_, shape) stops at the shorter of the two
FixLoop(items, shp) ==
    [k \in 1..Min(Len(items), Len(shp)) |-> FixAxis(items[k], shp[k])]

fix_slice(slice_, shp) ==
    Return(Tuple(FixLoop(ExpandEllipsis(AsTuple(slice_), shp), shp)))

(* ---------------------------- combine_slices -------------------------- *)

\* lines 109-112: an int becomes slice(exp, exp+1)
AsSlice(exp) ==
    IF exp.kind = "int" THEN Slice(Some(exp.i), Some(exp.i + 1), None) ELSE exp

\* lines 117-124 with the offset of exp1.start dropped from the open-stop case
CombineStopNoOffset(exp1, exp2) ==
    IF exp1.stop = None /\ exp2.stop = None THEN None
    ELSE IF exp1.stop = None THEN Some(exp2.stop[1])
    ELSE IF exp2.stop = None THEN exp1.stop
    ELSE Some(Min(exp1.stop[1], Or(exp1.start, 0) + exp2.stop[1]))

\* lines 117-124
CombineStop(exp1, exp2) ==
    IF exp1.stop = None /\ exp2.stop = None THEN None
    ELSE IF exp1.stop = None THEN Some(Or(exp1.start, 0) + exp2.stop[1])
    ELSE IF exp2.stop = None THEN exp1.stop
    ELSE Some(Min(exp1.stop[1], Or(exp1.start, 0) + exp2.stop[1]))

\* lines 109-126: one iteration of the loop
CombineAxis(e1, e2) ==
    LET exp1 == AsSlice(e1)
        exp2 == AsSlice(e2)
        start == Or(exp1.start, 0) + Or(exp2.start, 0)
        step == Or(exp1.step, 1) * Or(exp2.step, 1)
    IN  Slice(Some(start), CombineStop(exp1, exp2), Some(step))

Max(a, b) == IF a >= b THEN a ELSE b

\* itertools.izip_longest(slice1, slice2, fillvalue=slice(None)), entry k
Filled(items, k) == IF k <= Len(items) THEN items[k] ELSE SliceNone

\* lines 106-127; an entry that is neither an int nor a slice has no
\* attribute `start`
combine_slices(s1, s2) ==
    LET n == Max(Len(s1.items), Len(s2.items))
    IN  IF \E k \in 1..n : \/ Filled(s1.items, k).kind \notin {"int", "slice"}
                            \/ Filled(s2.items, k).kind \notin {"int", "slice"}
        THEN Raise("AttributeError")
        ELSE Return(Tuple([k \in 1..n |->
                 CombineAxis(Filled(s1.items, k), Filled(s2.items, k))]))

(* ------------------------------ hyperslab ----------------------------- *)

\* sys.maxint (line 141), of a build whose C long has 32 bits
Maxint == 2147483647

\* lines 137-138: pop trailing entries equal to slice(None); slices compare
\* by (start, stop, step), and an int never equals a slice
RECURSIVE PopTrailing(_)
PopTrailing(items) ==
    IF items # <<>> /\ items[Len(items)] = SliceNone
    THEN PopTrailing(SubSeq(items, 1, Len(items) - 1))
    ELSE items

\* line 140-141: '[%s:%s:%s]' % (s.start or 0, s.step or 1, (s.stop or sys.maxint)-1)
Group(s) ==
    "[" \o ToString(Or(s.start, 0)) \o ":" \o ToString(Or(s.step, 1)) \o ":"
        \o ToString(Or(s.stop, Maxint) - 1) \o "]"

\* ''.join(...)
RECURSIVE Join(_)
Join(strs) == IF strs = <<>> THEN "" ELSE Head(strs) \o Join(Tail(strs))

\* lines 130-141; an entry that is not a slice has no attribute `start`
hyperslab(slice_) ==
    LET kept == PopTrailing(AsTuple(slice_))
    IN  IF \E k \in 1..Len(kept) : kept[k].kind # "slice"
        THEN Raise("AttributeError")
        ELSE Return(Join([k \in 1..Len(kept) |-> Group(kept[k])]))

(* ------------------------------- inputs ------------------------------- *)

\* the entries of the expression in slice1
RawItems == AsTuple(slice1)

\* an entry with no negative index and no negative bound
NonNegative(s) ==
    IF s.kind = "int" THEN s.i >= 0
    ELSE /\ s.start # None => s.start[1] >= 0
         /\ s.stop # None => s.stop[1] >= 0

\* all sequences over S of length 0..n
SeqUpTo(S, n) == UNION {[1..k -> S] : k \in 0..n}

Shapes == SeqUpTo(0..MaxLen, MaxDim)

FixSels ==
    {PyInt(-(MaxIdx + 1)), PyInt(-1), PyInt(1), Ellipsis,
     SliceNone,
     Slice(Some(-1), Some(-(MaxIdx + 1)), Some(0)),
     Slice(Some(1), Some(MaxIdx), Some(2))}

\* raw index expressions: a single selection, or a tuple of selections that
\* may be shorter or longer than the shape
FixInputs == FixSels \cup {Tuple(t) : t \in SeqUpTo(FixSels, MaxDim + 1)}

(* ---------------------------- fix_slice calls -------------------------- *)

InitFix ==
    /\ pc = "call"
    /\ shape \in Shapes
    /\ slice1 \in FixInputs
    /\ slice2 = Tuple(<<>>)
    /\ slice3 = Tuple(<<>>)
    /\ out = NoCall

CallFixSlice ==
    /\ pc = "call"
    /\ out' = fix_slice(slice1, shape)
    /\ pc' = "fix_slice"
    /\ UNCHANGED <<shape, slice1, slice2, slice3>>

NextFix == CallFixSlice

SpecFix == InitFix /\ [][NextFix]_vars

(* -------------------------- combine_slices calls ----------------------- *)

CombSels ==
    {PyInt(-1), PyInt(MaxIdx),
     SliceNone,
     Slice(Some(1), None, None),
     Slice(None, Some(MaxIdx), None),
     Slice(Some(1), Some(MaxIdx + 1), Some(3)),
     Slice(Some(0), Some(0), Some(1)),
     Slice(Some(MaxIdx), Some(1), Some(-1)),
     Slice(None, Some(MaxIdx), Some(0))}

CombInputs == {Tuple(t) : t \in SeqUpTo(CombSels, MaxCombLen)}

InitCombine ==
    /\ pc = "call"
    /\ shape = <<>>
    /\ slice1 \in CombInputs
    /\ slice2 \in CombInputs
    /\ slice3 \in CombInputs
    /\ out = NoCall

\* combine_slices(slice1, slice2) and combine_slices(slice2, slice3)
CallCombineSlices ==
    /\ pc = "call"
    /\ out' = [ab |-> combine_slices(slice1, slice2),
               bc |-> combine_slices(slice2, slice3)]
    /\ pc' = "combined"
    /\ UNCHANGED <<shape, slice1, slice2, slice3>>

\* combine_slices(combine_slices(slice1, slice2), slice3) and
\* combine_slices(slice1, combine_slices(slice2, slice3))
CallCombineAgain ==
    /\ pc = "combined"
    /\ out.ab.raised = "" /\ out.bc.raised = ""
    /\ out' = [ab |-> out.ab, bc |-> out.bc,
               ab_c |-> combine_slices(out.ab.value, slice3),
               a_bc |-> combine_slices(slice1, out.bc.value)]
    /\ pc' = "recombined"
    /\ UNCHANGED <<shape, slice1, slice2, slice3>>

NextCombine == CallCombineSlices \/ CallCombineAgain

SpecCombine == InitCombine /\ [][NextCombine]_vars

(* ----------------------- combine_slices: properties -------------------- *)

ZeroStep(t) == \E k \in 1..Len(t.items) :
    t.items[k].kind = "slice" /\ t.items[k].step = Some(0)

\* C5: combine_slices fails whenever a range of either argument has an
\* explicit step of 0.
C5_ZeroStepRejected ==
    (pc = "combined" /\ (ZeroStep(slice1) \/ ZeroStep(slice2)))
        => out.ab.raised # ""

\* C10: combine_slices is associative entry by entry (start, stop with its
\* open-ness, step) on expressions of any lengths with non-zero steps, and
\* every entry of a result is a range.
C10_Associative ==
    (pc = "recombined" /\ ~ZeroStep(slice1) /\ ~ZeroStep(slice2) /\ ~ZeroStep(slice3))
        => /\ out.ab_c.raised = "" /\ out.a_bc.raised = ""
           /\ out.ab_c.value = out.a_bc.value
           /\ \A r \in {out.ab, out.bc, out.ab_c, out.a_bc} :
                \A k \in 1..Len(r.value.items) : r.value.items[k].kind = "slice"

C10_Witness ==
    /\ pc = "recombined"
    /\ ~ZeroStep(slice1) /\ ~ZeroStep(slice2) /\ ~ZeroStep(slice3)
    /\ Len(slice1.items) = 1 /\ slice1.items[1] = Slice(Some(1), None, None)
    /\ Len(slice2.items) = 1 /\ slice2.items[1].kind = "int"
    /\ Len(slice3.items) = 0
    /\ out.ab_c.value.items = <<Slice(Some(1 + MaxIdx), Some(2 + MaxIdx), Some(1))>>

(* ----------------------------- hyperslab calls ------------------------ *)

FullRange == Slice(None, None, Some(1))

HyperSels ==
    {PyInt(0), PyInt(MaxIdx),
     SliceNone, FullRange,
     Slice(Some(1), Some(MaxIdx + 1), Some(1)),
     Slice(Some(0), Some(0), None),
     Slice(None, Some(MaxIdx), Some(0)),
     Slice(Some(MaxIdx), None, Some(2))}

HyperInputs == HyperSels \cup {Tuple(t) : t \in SeqUpTo(HyperSels, MaxHyperLen)}

InitHyper ==
    /\ pc = "call"
    /\ shape = <<>>
    /\ slice1 \in HyperInputs
    /\ slice2 = Tuple(<<>>)
    /\ slice3 = Tuple(<<>>)
    /\ out = NoCall

CallHyperslab ==
    /\ pc = "call"
    /\ out' = hyperslab(slice1)
    /\ pc' = "hyperslab"
    /\ UNCHANGED <<shape, slice1, slice2, slice3>>

NextHyper == CallHyperslab

SpecHyper == InitHyper /\ [][NextHyper]_vars

(* -------------------------- hyperslab: properties ---------------------- *)

\* A full-range selection Range(None, None, 1); the step of a Range
\* defaults to 1.
IsFullRange(s) ==
    s.kind = "slice" /\ s.start = None /\ s.stop = None /\ s.step \in {None, Some(1)}

OnlySlices(items) == \A k \in 1..Len(items) : items[k].kind = "slice"

\* the entries left when the trailing full-range selections are dropped
RECURSIVE DropFullRange(_)
DropFullRange(items) ==
    IF items # <<>> /\ IsFullRange(items[Len(items)])
    THEN DropFullRange(SubSeq(items, 1, Len(items) - 1))
    ELSE items

\* the group [s:k:l] of one Range: s = start or 0 when open, k = step or 1
\* when absent, l = stop - 1 when stop is present and the sentinel when open
BracketGroup(s) ==
    "[" \o ToString(IF s.start = None THEN 0 ELSE s.start[1]) \o ":"
        \o ToString(IF s.step = None THEN 1 ELSE s.step[1]) \o ":"
        \o ToString(IF s.stop = None THEN Maxint - 1 ELSE s.stop[1] - 1) \o "]"

Brackets(items) == Join([k \in 1..Len(items) |-> BracketGroup(items[k])])

\* C6: hyperslab emits one bracket group per entry before the trailing
\* full-range selections Range(None, None, 1) and none for those; an
\* expression of full-range selections only serializes to "".
C6_TrailingElision ==
    (pc = "hyperslab" /\ OnlySlices(RawItems))
        => /\ out.raised = ""
           /\ out.value = Join([k \in 1..Len(DropFullRange(RawItems)) |->
                                  Group(RawItems[k])])

\* C7: every non-elided Range is emitted as [s:k:l], s = start or 0,
\* k = step or 1, l = stop - 1 whenever stop is present (stop = 0 gives -1),
\* the sentinel only when stop is open; the groups are concatenated in axis
\* order.  Stated for expressions with no zero step.
C7_BracketGroups ==
    (pc = "hyperslab" /\ OnlySlices(RawItems) /\ ~ZeroStep(Tuple(RawItems))
       /\ RawItems # <<>> /\ ~IsFullRange(RawItems[Len(RawItems)]))
        => out = Return(Brackets(RawItems))

\* the expression with every integer pick Index(i) replaced by Range(i, i+1, 1)
UnitRanges(items) ==
    [k \in 1..Len(items) |->
        IF items[k].kind = "int"
        THEN Slice(Some(items[k].i), Some(items[k].i + 1), Some(1))
        ELSE items[k]]

\* C8: an integer pick Index(i), i >= 0, serializes like Range(i, i+1, 1),
\* and serializing it never fails.
C8_IndexAsUnitRange ==
    (pc = "hyperslab" /\ \E k \in 1..Len(RawItems) :
                            RawItems[k].kind = "int" /\ RawItems[k].i >= 0)
        => /\ out.raised = ""
           /\ out = hyperslab(Tuple(UnitRanges(RawItems)))

(* ------------------- x[s1][s2] and x[combine_slices(s1, s2)] ----------- *)

\* The array x is described by its axes: for each axis of the original
\* array the positions along it that a view holds, in order, and whether the
\* axis is still an axis of the view (an integer pick removes it).
Axis(kept, idx) == [kept |-> kept, idx |-> idx]

Array(shp) == [a \in 1..Len(shp) |-> Axis(TRUE, [p \in 1..shp[a] |-> p - 1])]

KeptAxes(view) == {a \in 1..Len(view) : view[a].kept}

\* x.shape
ShapeOf(view) ==
    LET F[a \in 0..Len(view)] ==
            IF a = 0 THEN <<>>
            ELSE IF view[a].kept THEN Append(F[a - 1], Len(view[a].idx)) ELSE F[a - 1]
    IN  F[Len(view)]

Clamp(v, lo, hi) == IF v < lo THEN lo ELSE IF v > hi THEN hi ELSE v

\* range(*slice(start, stop, step).indices(n))
SliceIndices(s, n) ==
    LET step == IF s.step = None THEN 1 ELSE s.step[1]
        Wrap(v) == IF v < 0 THEN v + n ELSE v
        start == IF step > 0
                 THEN IF s.start = None THEN 0 ELSE Clamp(Wrap(s.start[1]), 0, n)
                 ELSE IF s.start = None THEN n - 1 ELSE Clamp(Wrap(s.start[1]), -1, n - 1)
        stop == IF step > 0
                THEN IF s.stop = None THEN n ELSE Clamp(Wrap(s.stop[1]), 0, n)
                ELSE IF s.stop = None THEN -1 ELSE Clamp(Wrap(s.stop[1]), -1, n - 1)
        count == IF step > 0
                 THEN IF stop > start THEN (stop - start + step - 1) \div step ELSE 0
                 ELSE IF start > stop THEN (start - stop - step - 1) \div (-step) ELSE 0
    IN  [p \in 1..count |-> start + (p - 1) * step]

\* the index expression with its ellipsis expanded and padded to d axes
FullIndex(items, d) ==
    LET at == {k \in 1..Len(items) : items[k] = Ellipsis}
        k == Len(items) - Cardinality(at)
        e == IF at = {} THEN Len(items) + 1 ELSE CHOOSE p \in at : TRUE
    IN  [a \in 1..d |->
            IF a < e THEN items[a]
            ELSE IF a > d - (Len(items) - e) /\ at # {} THEN items[Len(items) - (d - a)]
            ELSE SliceNone]

\* the index expressions that x[items] accepts for an x of shape shp
ValidIndex(items, shp) ==
    /\ Cardinality({k \in 1..Len(items) : items[k] = Ellipsis}) <= 1
    /\ Cardinality({k \in 1..Len(items) : items[k] # Ellipsis}) <= Len(shp)
    /\ \A a \in 1..Len(shp) :
          LET s == FullIndex(items, Len(shp))[a]
          IN  IF s.kind = "int" THEN -shp[a] <= s.i /\ s.i < shp[a]
              ELSE s.step # Some(0)

\* x[items]
Getitem(view, items) ==
    LET full == FullIndex(items, Cardinality(KeptAxes(view)))
    IN  [a \in 1..Len(view) |->
            IF ~view[a].kept THEN view[a]
            ELSE LET s == full[Cardinality({b \in KeptAxes(view) : b <= a})]
                     idx == view[a].idx
                     n == Len(idx)
                 IN  IF s.kind = "int"
                     THEN Axis(FALSE, <<idx[(IF s.i < 0 THEN s.i + n ELSE s.i) + 1]>>)
                     ELSE LET sel == SliceIndices(s, n)
                          IN  Axis(TRUE, [p \in 1..Len(sel) |-> idx[sel[p] + 1]])]

\* the elements of a view, as their positions in the original array, in
\* row-major order
RECURSIVE Elements(_)
Elements(view) ==
    IF view = <<>> THEN << <<>> >>
    ELSE LET rest == Elements(Tail(view))
             idx == Head(view).idx
             F[p \in 0..Len(idx)] ==
                 IF p = 0 THEN <<>>
                 ELSE F[p - 1] \o [r \in 1..Len(rest) |-> <<idx[p]>> \o rest[r]]
         IN  F[Len(idx)]

ArrShapes == UNION {[1..k -> 1..MaxArrLen] : k \in 1..MaxArrDim}

ArrSels ==
    {PyInt(0), PyInt(-1), Ellipsis,
     SliceNone,
     Slice(Some(1), None, None),
     Slice(None, Some(MaxIdx), None),
     Slice(Some(1), None, Some(2)),
     Slice(Some(-MaxIdx), Some(-1), None)}

ArrInputs == ArrSels \cup {Tuple(t) : t \in SeqUpTo(ArrSels, MaxArrDim)}

InitCompose ==
    /\ pc = "call"
    /\ shape \in ArrShapes
    /\ slice1 \in ArrInputs
    /\ slice2 \in ArrInputs
    /\ ValidIndex(AsTuple(slice1), shape)
    /\ ValidIndex(AsTuple(slice2), ShapeOf(Getitem(Array(shape), AsTuple(slice1))))
    /\ slice3 = Tuple(<<>>)
    /\ out = NoCall

\* x[s1][s2]
IndexTwice ==
    /\ pc = "call"
    /\ LET first == Getitem(Array(shape), AsTuple(slice1))
       IN  out' = [first |-> first, second |-> Getitem(first, AsTuple(slice2))]
    /\ pc' = "twice"
    /\ UNCHANGED <<shape, slice1, slice2, slice3>>

\* x[combine_slices(fix_slice(s1, x.shape), fix_slice(s2, x[s1].shape))]
IndexCombined ==
    /\ pc = "twice"
    /\ LET fixed1 == fix_slice(slice1, shape)
           fixed2 == fix_slice(slice2, ShapeOf(out.first))
           combined == combine_slices(fixed1.value, fixed2.value)
       IN  out' = [first |-> out.first, second |-> out.second,
                   fixed1 |-> fixed1, fixed2 |-> fixed2,
                   combined |-> combined,
                   once |-> Getitem(Array(shape), combined.value.items)]
    /\ pc' = "once"
    /\ UNCHANGED <<shape, slice1, slice2, slice3>>

NextCompose == IndexTwice \/ IndexCombined

SpecCompose == InitCompose /\ [][NextCompose]_vars

\* C1: indexing once with combine_slices(fix_slice(e1, S),
\* fix_slice(e2, shape(A[e1]))) selects the same elements in the same order
\* as indexing with e1 and then with e2.  Stated for the expressions that
\* fix_slice normalises to entries without a negative index or bound.
C1_CompositionLaw ==
    (pc = "once" /\ \A f \in {out.fixed1, out.fixed2} :
                       \A k \in 1..Len(f.value.items) : NonNegative(f.value.items[k]))
        => Elements(out.once) = Elements(out.second)

(* ------------------------- fix_slice: properties ----------------------- *)

Fixed == pc = "fix_slice" /\ out.raised = ""

EllipsisAt == {k \in 1..Len(RawItems) : RawItems[k] = Ellipsis}

Selections == {k \in 1..Len(RawItems) : RawItems[k] # Ellipsis}

\* C2: whenever fix_slice returns, the returned tuple has exactly len(shape)
\* entries, whatever the raw expression (single selection or tuple, with or
\* without ellipsis, shorter or longer than the shape).
C2_LengthIsShape == Fixed => Len(out.value.items) = Len(shape)

C2_Witness ==
    /\ Fixed
    /\ slice1.kind = "tuple"
    /\ Len(RawItems) > Len(shape)
    /\ EllipsisAt # {}
    /\ Len(shape) = 2
    /\ Len(out.value.items) = 2

\* C3: in every tuple fix_slice returns no integer entry is negative and no
\* range has a present start or stop that is negative.
C3_NoNegative ==
    Fixed => \A k \in 1..Len(out.value.items) : NonNegative(out.value.items[k])

\* C4: fix_slice fails when the raw expression holds more than one ellipsis
\* or more non-ellipsis selections than len(shape).
C4_MalformedRejected ==
    (pc = "fix_slice" /\ (Cardinality(EllipsisAt) > 1
                          \/ Cardinality(Selections) > Len(shape)))
        => out.raised # ""

\* The normalisation of one selection against its axis length (spec 4.1,
\* step 3), written apart from the code.
Resolved(sel, n) ==
    CASE sel.kind = "int" -> PyInt(IF sel.i >= 0 THEN sel.i ELSE n + sel.i)
      [] sel.kind = "slice" ->
           Slice(IF sel.start = None \/ sel.start[1] >= 0
                   THEN sel.start ELSE Some(n + sel.start[1]),
                 IF sel.stop = None \/ sel.stop[1] >= 0
                   THEN sel.stop ELSE Some(n + sel.stop[1]),
                 IF sel.step \in {None, Some(0)} THEN Some(1) ELSE sel.step)

\* number of selections written before the ellipsis (all of them when
\* there is none)
Before ==
    IF EllipsisAt = {} THEN Len(RawItems) ELSE (CHOOSE k \in EllipsisAt : TRUE) - 1

After == Cardinality(Selections) - Before

WellFormed ==
    Cardinality(EllipsisAt) <= 1 /\ Cardinality(Selections) <= Len(shape)

\* C9: with at most one ellipsis and k <= d selections, fix_slice returns d
\* entries: the selections before the ellipsis on the first axes, those
\* after it on the last axes, Range(None, None, 1) on the d - k axes in
\* between (all on the right when there is no ellipsis).
C9_EllipsisAndPadding ==
    (Fixed /\ WellFormed) =>
        LET r == out.value.items
            d == Len(shape)
        IN  /\ Len(r) = d
            /\ \A k \in 1..d :
                 r[k] = IF k <= Before
                          THEN Resolved(RawItems[k], shape[k])
                        ELSE IF k > d - After
                          THEN Resolved(RawItems[Len(RawItems) - (d - k)], shape[k])
                        ELSE FullRange

C9_Witness ==
    /\ Fixed
    /\ WellFormed
    /\ Len(shape) = 3
    /\ Before = 1 /\ After = 1 /\ EllipsisAt = {2}
    /\ out.value.items[2] = FullRange
    /\ out.value.items[1].kind = "int"
    /\ out.value.items[3].kind = "slice" /\ out.value.items[3] # FullRange

====
